---- MODULE Spec2Model ----
(***************************************************************************)
(* Points ledger of the Mahidol forum backend                              *)
(* (backend/app/utils/points.py, backend/app/routers/admin.py).            *)
(*                                                                         *)
(* The store (Supabase) holds the `profiles` and `point_records` tables.   *)
(* Every request runs award_points, deduct_points or check_daily_login as  *)
(* a sequence of separate store operations; requests interleave between    *)
(* store operations, and every store operation either succeeds, answers    *)
(* with an error response, or raises.                                      *)
(***************************************************************************)
EXTENDS Integers, Sequences, FiniteSets, TLC

\* ---------------------------------------------------------------- bounds
MaxDay == 2          \* calendar days 1..MaxDay are explored
MaxRecords == 2      \* at most this many point_records rows are inserted

\* ------------------------------------------------------- inputs explored
Users == {"u1", "u2", "u3"}    \* u3 has no profile
SeqProcs == {"r1"}             \* the request slot of the sequential runs
Contended == {"u1"}            \* the user concurrent requests are about
FailUsers == {"u1", "u3"}      \* the users of the runs with store failures
Procs == {"r1", "r2"}
AwardAmounts == {0, 10}
DeductAmounts == {-5, 50}
AdminPoints == {250}
Outcomes == {"ok", "error", "exception"}

AwardReason == "create_post"
DeductReason == "pin_post"
DailyLoginReason == "daily_login"      \* the literal '每日登录' of points.py:242

\* the level cap and the points per level of the banding formula
MaxLevel == 10
PointsPerLevel == 100
\* last_login of points.py:217/221: the stored value could not be parsed
None == -1

Min(a, b) == IF a < b THEN a ELSE b
Max(a, b) == IF a > b THEN a ELSE b

VARIABLES
  profiles,       \* table profiles: user id -> row, for the users that have one
  point_records,  \* table point_records, in insertion order
  calendar_day,   \* the calendar day date.today() returns
  req,            \* the requests: position, arguments and locals of each
  initial_points, \* history: total_points of every profile at the start
  login_days,     \* history: the days on which check_daily_login was called
  pre,            \* history: what each call found when it started
  admins,         \* table admins: user id -> row, for the users that have one
  chk,            \* the role check in progress: position, user and responses
  web             \* the request handler in progress, the pin flag of the
                  \* post and the status of the group creation request

vars == <<profiles, point_records, calendar_day, req, initial_points,
          login_days, pre, admins, chk, web>>
store == <<profiles, point_records>>
history == <<initial_points, login_days, pre>>
resolver == <<admins, chk>>
ledger == <<point_records, calendar_day, req, initial_points, login_days, pre>>

\* ------------------------------------------------------ stored date values
\* profiles.last_login_date as the store returns it: NULL, a date string
\* 'YYYY-MM-DD', a timestamp string 'YYYY-MM-DDTHH:MM:SSZ', or text that is
\* no ISO date.
NullDate == [fmt |-> "null", day |-> 0]
GarbageDate == [fmt |-> "garbage", day |-> 0]
DateStr(d) == [fmt |-> "date", day |-> d]
TimestampStr(d) == [fmt |-> "timestamp", day |-> d]

\* the profile of u1 at the start: total_points and last_login_date
InitProfiles ==
  {<<40, NullDate>>, <<95, TimestampStr(0)>>, <<995, GarbageDate>>}

\* today.isoformat()
isoformat(d) == DateStr(d)

\* variant: a parser that rejects the date-only form isoformat() writes
fromisoformatTimestampOnly(s) ==
  IF s.fmt = "timestamp" THEN s.day ELSE None

\* datetime.fromisoformat(s.replace('Z', '+00:00')).date(), None on ValueError
fromisoformat(s) ==
  IF s.fmt \in {"date", "timestamp"} THEN s.day ELSE None

\* `if last_login_date:` is false for NULL (and for an empty string)
Truthy(s) == s.fmt # "null"

\* variant: the comparison with today is left out
AlreadyLoggedInAnyDate(s, t) == Truthy(s)

\* lines 212-225 of check_daily_login: TRUE when the call returns False
\* because the user already logged in today
AlreadyLoggedIn(s, t) == Truthy(s) /\ fromisoformat(s) = t

\* ------------------------------------------------------------ arithmetic
\* variant: the level is not capped
AwardLevelUncapped(new_total) == 1 + (new_total \div PointsPerLevel)
AwardLevel(new_total) == Min(MaxLevel, 1 + (new_total \div PointsPerLevel))
DeductLevel(new_total) ==
  Max(1, Min(MaxLevel, 1 + (new_total \div PointsPerLevel)))
AdminLevel(total_points) == Min(MaxLevel, 1 + (total_points \div PointsPerLevel))

\* variants: a zero amount passes; the balance check is missing or only
\* refuses an empty balance; the sum forgets the balance; the difference is
\* taken the wrong way round
AwardRejectsNegative(points) == points < 0
InsufficientOff(current_points, points) == FALSE
InsufficientWhenEmpty(current_points, points) == current_points <= 0
AwardTotalLost(current_points, points) == points
DeductTotalSwapped(current_points, points) == points - current_points

\* the precondition `if points <= 0: return False`
AwardRejects(points) == points <= 0
DeductRejects(points) == points <= 0
\* `if current_points < points: return False`
Insufficient(current_points, points) == current_points < points

AwardTotal(current_points, points) == current_points + points
DeductTotal(current_points, points) == current_points - points

\* ------------------------------------------------------------- requests
IdleReq ==
  [pc |-> "idle", op |-> "none", user |-> "u1", points |-> 0,
   reason |-> "none", current_points |-> 0, today |-> 0,
   resp |-> "none", ret |-> FALSE]

NewReq(op, u, pts, reason) ==
  [IdleReq EXCEPT !.op = op, !.user = u, !.points = pts, !.reason = reason]

\* The history of the sequential specification: the last call of request p,
\* with the user's total_points and the number of point_records rows when
\* the day it started, and the days of the check_daily_login calls.
NoPre ==
  [op |-> "none", user |-> "u1", points |-> 0, balance |-> 0, records |-> 0,
   day |-> 0]
Record(p, op, u, pts) ==
  /\ pre' = [pre EXCEPT ![p] =
       [op |-> op, user |-> u, points |-> pts,
        balance |-> IF u \in DOMAIN profiles THEN profiles[u].total_points
                    ELSE 0,
        records |-> Len(point_records), day |-> calendar_day]]
  /\ login_days' = IF op = "daily"
                   THEN [login_days EXCEPT ![u] = @ \cup {calendar_day}]
                   ELSE login_days
  /\ UNCHANGED <<initial_points, web>>

\* the same without the days of the daily logins
RecordCall(p, op, u, pts) ==
  /\ pre' = [pre EXCEPT ![p] =
       [op |-> op, user |-> u, points |-> pts,
        balance |-> IF u \in DOMAIN profiles THEN profiles[u].total_points
                    ELSE 0,
        records |-> Len(point_records), day |-> calendar_day]]
  /\ UNCHANGED <<initial_points, login_days, web>>

AllIdle == \A p \in Procs : req[p].pc = "idle"
Active == {p \in Procs : req[p].pc # "idle"}

\* every running call inserts at most one row
Room == Len(point_records) + Cardinality(Active) < MaxRecords

\* the function returns value: the request is over, its locals are gone and
\* ret is what the caller got
Returns(r, value) == [IdleReq EXCEPT !.ret = value]

\* variant: the row carries the amount without its sign
InsertRecordUnsigned(r) ==
  Append(point_records,
         [user_id |-> r.user,
          points |-> IF r.points < 0 THEN 0 - r.points ELSE r.points,
          reason |-> r.reason, created_at |-> calendar_day])

InsertRecord(r) ==
  Append(point_records,
         [user_id |-> r.user, points |-> r.points, reason |-> r.reason,
          created_at |-> calendar_day])

\* the handlers that vote, who votes, and what a vote can be
VoteActions == {"vote_post", "vote_reply"}
Voters == {"u1", "u2"}
VoteTypes == {"upvote", "downvote"}

\* no handler is running, the post is not pinned, the request is pending,
\* nobody has voted on the post or on the reply; calls counts the attempts
\* of the operation a handler may repeat
IdleWeb ==
  [pc |-> "idle", action |-> "none", user |-> "u1", private |-> FALSE,
   primary |-> FALSE, deduct |-> "none", award |-> "none", http |-> 0,
   pinned |-> FALSE, request |-> "pending", balance |-> 0,
   voter |-> "u1", vote_type |-> "none", before |-> "none",
   existing |-> "none", author |-> "unread",
   votes |-> [a \in VoteActions |-> [v \in Voters |-> "none"]],
   cred |-> "none", calls |-> 0, auth_resp |-> "none",
   admin_resp |-> "none", profile_resp |-> "none"]

\* no role check is running
IdleChk ==
  [pc |-> "idle", fn |-> "none", user |-> "u1", admin_resp |-> "none",
   profile_resp |-> "none", ret |-> FALSE]

Init ==
  /\ \E i \in InitProfiles :
       LET row1 == [total_points |-> i[1],
                    level |-> Min(10, 1 + (i[1] \div 100)),
                    last_login_date |-> i[2], role |-> "user"]
           row2 == [total_points |-> 0, level |-> 1,
                    last_login_date |-> NullDate, role |-> "user"]
       IN profiles = [u \in {"u1", "u2"} |-> IF u = "u1" THEN row1 ELSE row2]
  /\ point_records = <<>>
  /\ calendar_day = 1
  /\ req = [p \in Procs |-> IdleReq]
  /\ initial_points = [u \in DOMAIN profiles |-> profiles[u].total_points]
  /\ login_days = [u \in Users |-> {}]
  /\ pre = [p \in Procs |-> NoPre]
  /\ admins = [u \in {} |-> [is_active |-> TRUE]]
  /\ chk = IdleChk
  /\ web = IdleWeb

\* ---------------------------------------------------------- award_points
\* lines 29-85, shared by a direct call and by check_daily_login's call
CallAward(p, u, pts) ==
  /\ req[p].pc = "idle"
  /\ Room
  /\ LET r == NewReq("award", u, pts, AwardReason)
     IN req' = [req EXCEPT ![p] =
                  IF AwardRejects(pts) THEN Returns(r, FALSE)
                  ELSE [r EXCEPT !.pc = "a_insert"]]
  /\ UNCHANGED <<store, calendar_day, resolver>>

\* variant: a failed insert does not abort the call
AwardInsertGoesOn(p, o) ==
  /\ req[p].pc = "a_insert"
  /\ point_records' = IF o = "ok" THEN InsertRecord(req[p])
                      ELSE point_records
  /\ req' = [req EXCEPT ![p].pc = "a_read"]
  /\ UNCHANGED <<profiles, calendar_day, history, resolver, web>>

AwardInsert(p, o) ==
  /\ req[p].pc = "a_insert"
  /\ IF o = "ok"
     THEN /\ point_records' = InsertRecord(req[p])
          /\ req' = [req EXCEPT ![p].pc = "a_read"]
     ELSE /\ UNCHANGED point_records
          /\ req' = [req EXCEPT ![p] = Returns(req[p], FALSE)]
  /\ UNCHANGED <<profiles, calendar_day, history, resolver, web>>

\* variant: a missing profile takes the inserted row back
AwardReadRollsBack(p, o) ==
  /\ req[p].pc = "a_read"
  /\ LET r == req[p]
     IN /\ req' = [req EXCEPT ![p] =
             IF o # "ok" \/ r.user \notin DOMAIN profiles
             THEN Returns(r, FALSE)
             ELSE [r EXCEPT !.pc = "a_update",
                            !.current_points = profiles[r.user].total_points]]
        /\ point_records' =
             IF o = "ok" /\ r.user \notin DOMAIN profiles
             THEN SubSeq(point_records, 1, Len(point_records) - 1)
             ELSE point_records
  /\ UNCHANGED <<profiles, calendar_day, history, resolver, web>>
AwardRead(p, o) ==
  /\ req[p].pc = "a_read"
  /\ LET r == req[p]
     IN req' = [req EXCEPT ![p] =
          IF o # "ok" \/ r.user \notin DOMAIN profiles
          THEN Returns(r, FALSE)
          ELSE [r EXCEPT !.pc = "a_update",
                         !.current_points = profiles[r.user].total_points]]
  /\ UNCHANGED <<store, calendar_day, history, resolver, web>>

\* variant: the update adds to the value the store holds at that moment
AwardUpdateAtomic(p, o) ==
  /\ req[p].pc = "a_update"
  /\ LET r == req[p]
         new_total == AwardTotal(profiles[r.user].total_points, r.points)
         new_level == AwardLevel(new_total)
     IN IF o = "ok"
        THEN /\ profiles' =
                  [profiles EXCEPT ![r.user].total_points = new_total,
                                   ![r.user].level = new_level]
             /\ req' = [req EXCEPT ![p] = Returns(r, TRUE)]
        ELSE /\ UNCHANGED profiles
             /\ req' = [req EXCEPT ![p] = Returns(r, FALSE)]
  /\ UNCHANGED <<point_records, calendar_day, history, resolver, web>>

\* variant: a failed update takes the inserted row back
AwardUpdateRollsBack(p, o) ==
  /\ req[p].pc = "a_update"
  /\ LET r == req[p]
         new_total == AwardTotal(r.current_points, r.points)
         new_level == AwardLevel(new_total)
     IN IF o = "ok"
        THEN /\ profiles' =
                  IF r.user \in DOMAIN profiles
                  THEN [profiles EXCEPT ![r.user].total_points = new_total,
                                        ![r.user].level = new_level]
                  ELSE profiles
             /\ req' = [req EXCEPT ![p] = Returns(r, TRUE)]
             /\ UNCHANGED point_records
        ELSE /\ UNCHANGED profiles
             /\ req' = [req EXCEPT ![p] = Returns(r, FALSE)]
             /\ point_records' =
                  SubSeq(point_records, 1, Len(point_records) - 1)
  /\ UNCHANGED <<calendar_day, history, resolver, web>>

AwardUpdate(p, o) ==
  /\ req[p].pc = "a_update"
  /\ LET r == req[p]
         new_total == AwardTotal(r.current_points, r.points)
         new_level == AwardLevel(new_total)
     IN IF o = "ok"
        THEN /\ profiles' =
                  IF r.user \in DOMAIN profiles
                  THEN [profiles EXCEPT ![r.user].total_points = new_total,
                                        ![r.user].level = new_level]
                  ELSE profiles
             /\ req' = [req EXCEPT ![p] = Returns(r, TRUE)]
        ELSE /\ UNCHANGED profiles
             /\ req' = [req EXCEPT ![p] = Returns(r, FALSE)]
  /\ UNCHANGED <<point_records, calendar_day, history, resolver, web>>

\* --------------------------------------------------------- deduct_points
CallDeduct(p, u, pts) ==
  /\ req[p].pc = "idle"
  /\ Room
  /\ LET r == NewReq("deduct", u, pts, DeductReason)
     IN req' = [req EXCEPT ![p] =
                  IF DeductRejects(pts) THEN Returns(r, FALSE)
                  ELSE [r EXCEPT !.pc = "d_read"]]
  /\ UNCHANGED <<store, calendar_day, resolver>>

DeductRead(p, o) ==
  /\ req[p].pc = "d_read"
  /\ LET r == req[p]
     IN req' = [req EXCEPT ![p] =
          IF o # "ok" \/ r.user \notin DOMAIN profiles
          THEN Returns(r, FALSE)
          ELSE IF Insufficient(profiles[r.user].total_points, r.points)
          THEN Returns(r, FALSE)
          ELSE [r EXCEPT !.pc = "d_insert",
                         !.current_points = profiles[r.user].total_points]]
  /\ UNCHANGED <<store, calendar_day, history, resolver, web>>

\* variant: a failed insert is swallowed and the deduction goes on
DeductInsertGoesOn(p, o) ==
  /\ req[p].pc = "d_insert"
  /\ point_records' =
       IF o = "ok"
       THEN InsertRecord([req[p] EXCEPT !.points = 0 - req[p].points])
       ELSE point_records
  /\ req' = [req EXCEPT ![p].pc = "d_update"]
  /\ UNCHANGED <<profiles, calendar_day, history, resolver, web>>

DeductInsert(p, o) ==
  /\ req[p].pc = "d_insert"
  /\ IF o = "ok"
     THEN /\ point_records' =
               InsertRecord([req[p] EXCEPT !.points = 0 - req[p].points])
          /\ req' = [req EXCEPT ![p].pc = "d_update"]
     ELSE /\ UNCHANGED point_records
          /\ req' = [req EXCEPT ![p] = Returns(req[p], FALSE)]
  /\ UNCHANGED <<profiles, calendar_day, history, resolver, web>>

\* variant: a failed update takes the inserted row back
DeductUpdateRollsBack(p, o) ==
  /\ req[p].pc = "d_update"
  /\ LET r == req[p]
         new_total == DeductTotal(r.current_points, r.points)
         new_level == DeductLevel(new_total)
     IN IF o = "ok"
        THEN /\ profiles' =
                  IF r.user \in DOMAIN profiles
                  THEN [profiles EXCEPT ![r.user].total_points = new_total,
                                        ![r.user].level = new_level]
                  ELSE profiles
             /\ req' = [req EXCEPT ![p] = Returns(r, TRUE)]
             /\ UNCHANGED point_records
        ELSE /\ UNCHANGED profiles
             /\ req' = [req EXCEPT ![p] = Returns(r, FALSE)]
             /\ point_records' =
                  SubSeq(point_records, 1, Len(point_records) - 1)
  /\ UNCHANGED <<calendar_day, history, resolver, web>>
DeductUpdate(p, o) ==
  /\ req[p].pc = "d_update"
  /\ LET r == req[p]
         new_total == DeductTotal(r.current_points, r.points)
         new_level == DeductLevel(new_total)
     IN IF o = "ok"
        THEN /\ profiles' =
                  IF r.user \in DOMAIN profiles
                  THEN [profiles EXCEPT ![r.user].total_points = new_total,
                                        ![r.user].level = new_level]
                  ELSE profiles
             /\ req' = [req EXCEPT ![p] = Returns(r, TRUE)]
        ELSE /\ UNCHANGED profiles
             /\ req' = [req EXCEPT ![p] = Returns(r, FALSE)]
  /\ UNCHANGED <<point_records, calendar_day, history, resolver, web>>

\* ----------------------------------------------------- check_daily_login
CallDaily(p, u) ==
  /\ req[p].pc = "idle"
  /\ Room
  /\ req' = [req EXCEPT ![p] =
               [NewReq("daily", u, 0, "none") EXCEPT !.pc = "l_read"]]
  /\ UNCHANGED <<store, calendar_day, resolver>>

\* lines 191-225: the read, today = date.today() and the comparison
DailyRead(p, o) ==
  /\ req[p].pc = "l_read"
  /\ LET r == [req[p] EXCEPT !.resp = o]
     IN req' = [req EXCEPT ![p] =
          IF o # "ok" \/ r.user \notin DOMAIN profiles
          THEN [r EXCEPT !.pc = "l_return"]
          ELSE IF AlreadyLoggedIn(profiles[r.user].last_login_date,
                                  calendar_day)
          THEN [r EXCEPT !.pc = "l_return"]
          ELSE [r EXCEPT !.pc = "l_update", !.today = calendar_day]]
  /\ UNCHANGED <<store, calendar_day, history, resolver, web>>

\* lines 228-242: the date stamp, then award_points(supabase, user_id, 1, ..)
\* An error response is only logged; an exception reaches line 243.
\* variant: an error response of the stamp ends the call
StampProceedsOkOnly(o) == o = "ok"
StampProceeds(o) == o \in {"ok", "error"}

DailyUpdate(p, o) ==
  /\ req[p].pc = "l_update"
  /\ LET r == [req[p] EXCEPT !.resp = o]
     IN /\ profiles' =
             IF o = "ok" /\ r.user \in DOMAIN profiles
             THEN [profiles EXCEPT
                     ![r.user].last_login_date = isoformat(r.today)]
             ELSE profiles
        /\ req' = [req EXCEPT ![p] =
             IF StampProceeds(o)
             THEN [r EXCEPT !.pc = "a_insert", !.points = 1,
                            !.reason = DailyLoginReason]
             ELSE [r EXCEPT !.pc = "l_return", !.today = 0]]
  /\ UNCHANGED <<point_records, calendar_day, history, resolver, web>>

\* the `return False` of lines 201, 205, 225 and 247
DailyReturn(p) ==
  /\ req[p].pc = "l_return"
  /\ req' = [req EXCEPT ![p] = Returns(req[p], FALSE)]
  /\ UNCHANGED <<store, calendar_day, history, resolver, web>>

\* ------------------------------------- admin PATCH /users/{user_id}
\* lines 454-476 of routers/admin.py; UserUpdate.total_points has ge=0
UpdateUser(u, total_points, o) ==
  /\ total_points >= 0
  /\ profiles' =
       IF o = "ok" /\ u \in DOMAIN profiles
       THEN [profiles EXCEPT ![u].total_points = total_points,
                             ![u].level = AdminLevel(total_points)]
       ELSE profiles
  /\ UNCHANGED <<point_records, calendar_day, req, history, resolver, web>>

\* midnight passes
NextDay ==
  /\ calendar_day < MaxDay
  /\ calendar_day' = calendar_day + 1
  /\ UNCHANGED <<store, req, history, resolver, web>>

\* ------------------------------------------------------------ role checks
\* _is_admin of routers/admin.py (the copies in routers/line_groups.py and
\* routers/tags.py are the same statements) and _is_superadmin of
\* routers/superadmin.py: one or two queries, each of which succeeds,
\* answers with an error response, or raises.
Principals == {"u1", "u2"}
NoRole == "null"                 \* profiles.role is NULL
Roles == {"user", "admin", "moderator", "superadmin", NoRole}

\* variants: the admins table is not consulted; is_active is not tested
AdminRowFoundNever(u) == FALSE
AdminRowFoundAnyRow(u) == u \in DOMAIN admins
\* admins.select().eq('id', user.id).eq('is_active', True) returned a row
AdminRowFound(u) == u \in DOMAIN admins /\ admins[u].is_active

\* `role in ('admin', 'moderator', 'superadmin')`
RoleIsAdmin(role) == role \in {"admin", "moderator", "superadmin"}

\* variant: every privileged role counts as superadmin
RoleIsSuperadminLoose(role) == role \in {"admin", "moderator", "superadmin"}
\* `role == 'superadmin'`
RoleIsSuperadmin(role) == role = "superadmin"

\* variant: a raising admins query is handled like an error response
AdminLookupRaisesNever(o) == FALSE
\* an exception of the admins query reaches `except Exception: return False`
AdminLookupRaises(o) == o = "exception"

CallIsAdmin(u) ==
  /\ chk.pc \in {"idle", "done"}
  /\ chk' = [IdleChk EXCEPT !.pc = "q_admin", !.fn = "is_admin", !.user = u]
  /\ UNCHANGED <<profiles, admins, ledger, web>>

\* admin.py:71-80: an error response falls through to the profiles query
IsAdminAdminLookup(o) ==
  /\ chk.pc = "q_admin"
  /\ LET c == [chk EXCEPT !.admin_resp = o]
     IN chk' = IF AdminLookupRaises(o)
               THEN [c EXCEPT !.pc = "done", !.ret = FALSE]
               ELSE IF o = "ok" /\ AdminRowFound(c.user)
               THEN [c EXCEPT !.pc = "done", !.ret = TRUE]
               ELSE [c EXCEPT !.pc = "q_profile"]
  /\ UNCHANGED <<profiles, admins, ledger, web>>

\* admin.py:83-95; .single() raises when the user has no profiles row
IsAdminProfileLookup(o) ==
  /\ chk.pc = "q_profile"
  /\ chk' = [chk EXCEPT
       !.pc = "done", !.profile_resp = o,
       !.ret = /\ o = "ok"
               /\ chk.user \in DOMAIN profiles
               /\ RoleIsAdmin(profiles[chk.user].role)]
  /\ UNCHANGED <<profiles, admins, ledger, web>>

CallIsSuperadmin(u) ==
  /\ chk.pc \in {"idle", "done"}
  /\ chk' = [IdleChk EXCEPT !.pc = "s_profile", !.fn = "is_superadmin",
                            !.user = u]
  /\ UNCHANGED <<profiles, admins, ledger, web>>

\* superadmin.py:20-33
IsSuperadminProfileLookup(o) ==
  /\ chk.pc = "s_profile"
  /\ chk' = [chk EXCEPT
       !.pc = "done", !.profile_resp = o,
       !.ret = /\ o = "ok"
               /\ chk.user \in DOMAIN profiles
               /\ RoleIsSuperadmin(profiles[chk.user].role)]
  /\ UNCHANGED <<profiles, admins, ledger, web>>

\* every principal has no profile or one with any role, and no admins row
\* or one that is active or not
InitRoles ==
  /\ \E D \in SUBSET Principals :
       \E f \in [D -> Roles] :
         profiles = [u \in D |->
                       [total_points |-> 0, level |-> 1,
                        last_login_date |-> NullDate, role |-> f[u]]]
  /\ \E D \in SUBSET Principals :
       \E f \in [D -> BOOLEAN] :
         admins = [u \in D |-> [is_active |-> f[u]]]
  /\ chk = IdleChk
  /\ web = IdleWeb
  /\ point_records = <<>>
  /\ calendar_day = 1
  /\ req = [p \in Procs |-> IdleReq]
  /\ initial_points = [u \in DOMAIN profiles |-> 0]
  /\ login_days = [u \in Users |-> {}]
  /\ pre = [p \in Procs |-> NoPre]

NextRoles ==
  \/ \E u \in Principals : CallIsAdmin(u)
  \/ \E o \in Outcomes : IsAdminAdminLookup(o)
  \/ \E o \in Outcomes : IsAdminProfileLookup(o)
  \/ \E u \in Principals : CallIsSuperadmin(u)
  \/ \E o \in Outcomes : IsSuperadminProfileLookup(o)

SpecRoles == InitRoles /\ [][NextRoles]_vars

\* --------------------------------------------------------------- handlers
\* The request handlers that call the ledger: create_post, create_reply and
\* pin_post (routers/threads.py), vote_post and vote_reply
\* (routers/votes_reports.py, for a first upvote by somebody else than the
\* author), create_group and review_creation_request with status approved
\* (routers/line_groups.py, for a caller that passed the admin check) and
\* get_current_user (auth.py). web.user is the user whose points the
\* handler touches; u1 is the author of the post, and u2 only tries to pin
\* it.
Actions ==
  {"create_post", "create_reply", "vote_post", "vote_reply", "create_group",
   "review_creation_request", "pin_post", "get_current_user"}
GroupActions == {"create_group", "review_creation_request"}
PostAuthor == "u1"
Callers == {"u1", "u2"}

AwardAmount(a) ==
  CASE a = "create_post" -> 10
    [] a = "create_reply" -> 5
    [] a = "vote_post" -> 2
    [] a = "vote_reply" -> 1
    [] OTHER -> 20
PinCost == 50
PrivateGroupCost == 30
DeductAmount(a) == IF a = "pin_post" THEN PinCost ELSE PrivateGroupCost

SuccessStatus(a) ==
  IF a \in {"create_post", "create_reply", "create_group"} THEN 201 ELSE 200

\* variants: a failed award or a failed deduction changes what the handler
\* returns, or does not
AfterAwardStrict(a, result) == IF result = "true" THEN SuccessStatus(a) ELSE 500
AfterDeductLenient(a, result) == "primary"
\* the award sits in try/except and its result is only printed
AfterAward(a, result) == SuccessStatus(a)
\* `if not deduct_points(...): raise HTTPException(400, ...)`
AfterDeduct(a, result) == IF result = "true" THEN "primary" ELSE "done"

\* the handler returns or raises HTTPException(code)
Responds(w, code) == [w EXCEPT !.pc = "done", !.http = code]
\* get_current_user returns to its caller: to the client, or to
\* get_admin_user (auth.py:234-238), which goes on to its role check
Returned(w, code) ==
  IF w.action = "get_admin_user" THEN [w EXCEPT !.pc = "a_admins"]
  ELSE Responds(w, code)
Result(r) == IF r THEN "true" ELSE "false"

CallHandler(a, u, priv) ==
  /\ web.pc \in {"idle", "done"}
  /\ AllIdle
  /\ Room
  /\ priv => a \in GroupActions
  /\ u # PostAuthor => a = "pin_post"
  /\ web' = [IdleWeb EXCEPT
       !.action = a, !.user = u, !.private = priv,
       !.pinned = web.pinned, !.request = web.request, !.votes = web.votes,
       !.pc = CASE a = "pin_post" -> "post"
                [] a = "review_creation_request" -> "status"
                [] a = "create_group" /\ priv -> "balance"
                [] OTHER -> "primary"]
  /\ UNCHANGED <<profiles, admins, chk, ledger>>

\* threads.py:1429-1463: the post exists, is not pinned, is the caller's
HandlerPost(o) ==
  /\ web.pc = "post"
  /\ web' = IF o = "exception" THEN Responds(web, 500)
            ELSE IF o = "error" THEN Responds(web, 404)
            ELSE IF web.pinned THEN Responds(web, 400)
            ELSE IF PostAuthor # web.user THEN Responds(web, 403)
            ELSE [web EXCEPT !.pc = "balance"]
  /\ UNCHANGED <<profiles, admins, chk, ledger>>

\* line_groups.py:2357-2422: the request is pending and becomes approved
HandlerStatus(o) ==
  /\ web.pc = "status"
  /\ web' = IF o = "exception" THEN Responds(web, 500)
            ELSE IF o = "error" THEN Responds(web, 400)
            ELSE IF web.request # "pending" THEN Responds(web, 400)
            ELSE [web EXCEPT !.request = "approved",
                             !.pc = IF web.private THEN "balance"
                                    ELSE "primary"]
  /\ UNCHANGED <<profiles, admins, chk, ledger>>

\* threads.py:1466-1482, line_groups.py:851-864 and 2431-2444: the handler's
\* own read of total_points into current_points (web.balance); without a
\* row pin_post answers 404 and the group handlers skip the deduction
HandlerBalance(o) ==
  /\ web.pc = "balance"
  /\ LET found == o = "ok" /\ web.user \in DOMAIN profiles
         cost == DeductAmount(web.action)
     IN web' = IF o = "exception" THEN Responds(web, 500)
               ELSE IF ~found
               THEN IF web.action = "pin_post" THEN Responds(web, 404)
                    ELSE [web EXCEPT !.pc = "primary"]
               ELSE IF profiles[web.user].total_points < cost
               THEN Responds([web EXCEPT !.balance =
                                profiles[web.user].total_points], 400)
               ELSE [web EXCEPT !.pc = "deduct",
                                !.balance = profiles[web.user].total_points]
  /\ UNCHANGED <<profiles, admins, chk, ledger>>

\* threads.py:1486, line_groups.py:866 and 2446: deduct_points is called
HandlerDeduct(p) ==
  /\ web.pc = "deduct"
  /\ CallDeduct(p, web.user, DeductAmount(web.action))
  /\ web' = [web EXCEPT !.pc = "deducting"]
  /\ UNCHANGED <<history, admins, chk>>

\* deduct_points has returned
HandlerDeducted(p) ==
  /\ web.pc = "deducting"
  /\ req[p].pc = "idle"
  /\ LET result == Result(req[p].ret)
     IN web' = IF AfterDeduct(web.action, result) = "primary"
               THEN [web EXCEPT !.deduct = result, !.pc = "primary"]
               ELSE Responds([web EXCEPT !.deduct = result], 400)
  /\ UNCHANGED <<profiles, admins, chk, ledger>>

\* what the handler answers when its own write fails
PrimaryFailure(a, o) ==
  CASE a = "get_current_user" -> 401
    [] a = "pin_post" -> 500
    [] o = "exception" -> 500
    [] OTHER -> 400

\* the write the handler is for: the posts, post_replies, thread_votes or
\* line_groups row, is_pinned = True, or the token check of auth.py:111-158.
\* The votes handlers do not look at the response; a line_groups error
\* response after an approval is only printed (line_groups.py:2463-2469).
HandlerPrimary(o) ==
  /\ web.pc = "primary"
  /\ LET a == web.action
         w == [web EXCEPT !.primary = o = "ok",
                          !.pinned = IF a = "pin_post" /\ o = "ok" THEN TRUE
                                     ELSE web.pinned]
         ignored == o = "error" /\ a \in {"vote_post", "vote_reply"}
         awards == IF a = "review_creation_request" THEN ~web.private
                   ELSE a # "pin_post"
     IN web' = IF o # "ok" /\ a = "review_creation_request" /\ o = "error"
               THEN Responds(w, SuccessStatus(a))
               ELSE IF o # "ok" /\ ~ignored
               THEN Responds(w, PrimaryFailure(a, o))
               ELSE IF awards THEN [w EXCEPT !.pc = "points"]
               ELSE Responds(w, SuccessStatus(a))
  /\ UNCHANGED <<profiles, admins, chk, ledger>>

\* the call of award_points, or of check_daily_login in get_current_user
HandlerAward(p) ==
  /\ web.pc = "points"
  /\ IF web.action \in {"get_current_user", "get_admin_user"}
     THEN CallDaily(p, web.user)
     ELSE CallAward(p, web.user, AwardAmount(web.action))
  /\ web' = [web EXCEPT !.pc = "awarding"]
  /\ UNCHANGED <<history, admins, chk>>

\* the call raises instead (asyncio.TimeoutError of votes_reports.py:143-
\* 156, or anything the `except Exception` of the other handlers catches)
HandlerAwardRaises ==
  /\ web.pc = "points"
  /\ web' = Returned([web EXCEPT !.award = "raised"],
                     AfterAward(web.action, "raised"))
  /\ UNCHANGED <<profiles, admins, chk, ledger>>

\* award_points or check_daily_login has returned
HandlerAwarded(p) ==
  /\ web.pc = "awarding"
  /\ req[p].pc = "idle"
  /\ LET result == Result(req[p].ret)
     IN web' = Returned([web EXCEPT !.award = result],
                        AfterAward(web.action, result))
  /\ UNCHANGED <<profiles, admins, chk, ledger>>

\* One handler at a time, every store operation may fail.
NextCallers ==
  \/ \E a \in Actions, u \in Callers, priv \in BOOLEAN : CallHandler(a, u, priv)
  \/ \E o \in Outcomes : HandlerPost(o)
  \/ \E o \in Outcomes : HandlerStatus(o)
  \/ \E o \in Outcomes : HandlerBalance(o)
  \/ \E p \in SeqProcs : HandlerDeduct(p)
  \/ \E p \in SeqProcs : HandlerDeducted(p)
  \/ \E o \in Outcomes : HandlerPrimary(o)
  \/ \E p \in SeqProcs : HandlerAward(p)
  \/ HandlerAwardRaises
  \/ \E p \in SeqProcs : HandlerAwarded(p)
  \/ \E p \in SeqProcs, o \in Outcomes : AwardInsert(p, o)
  \/ \E p \in SeqProcs, o \in Outcomes : AwardRead(p, o)
  \/ \E p \in SeqProcs, o \in Outcomes : AwardUpdate(p, o)
  \/ \E p \in SeqProcs, o \in Outcomes : DeductRead(p, o)
  \/ \E p \in SeqProcs, o \in Outcomes : DeductInsert(p, o)
  \/ \E p \in SeqProcs, o \in Outcomes : DeductUpdate(p, o)
  \/ \E p \in SeqProcs, o \in Outcomes : DailyRead(p, o)
  \/ \E p \in SeqProcs, o \in Outcomes : DailyUpdate(p, o)
  \/ \E p \in SeqProcs : DailyReturn(p)

SpecCallers == Init /\ [][NextCallers]_vars

\* ------------------------------------------------------------------ votes
\* vote_post and vote_reply (routers/votes_reports.py) step by step.
\* web.votes is the thread_votes row of each voter for the post and the
\* post_votes row of each voter for the reply; u1 is the author of both.
\* web.before is the stored vote when the handler is called, web.existing
\* what the handler's lookup answered ("error": a response without data).

\* variant: a switch from downvote to upvote is rewarded too
NetNewUpvoteLoose(vote_type, existing) ==
  vote_type = "upvote" /\ existing # "upvote"
\* `if payload.vote_type == 'upvote': if not existing_vote.data or ...`
NetNewUpvote(vote_type, existing) ==
  vote_type = "upvote" /\ existing \in {"none", "error"}

\* the vote row after the delete, the update or the insert the handler
\* chose from what its lookup answered
VoteWritten(existing, vote_type) ==
  IF existing = vote_type THEN "none" ELSE vote_type

CallVote(a, u, vt) ==
  /\ web.pc \in {"idle", "done"}
  /\ AllIdle
  /\ Room
  /\ web' = [IdleWeb EXCEPT
       !.action = a, !.user = PostAuthor, !.voter = u, !.vote_type = vt,
       !.before = web.votes[a][u],
       !.pinned = web.pinned, !.request = web.request, !.votes = web.votes,
       !.pc = "v_item"]
  /\ UNCHANGED <<profiles, admins, chk, ledger>>

\* votes_reports.py:26-37 and 195-208: the post or the reply exists
VoteItem(o) ==
  /\ web.pc = "v_item"
  /\ web' = IF o = "exception" THEN Responds(web, 500)
            ELSE IF o = "error" THEN Responds(web, 404)
            ELSE [web EXCEPT !.pc = "v_existing"]
  /\ UNCHANGED <<profiles, admins, chk, ledger>>

\* votes_reports.py:40-54 and 211-225: the voter's row, if any
VoteExisting(o) ==
  /\ web.pc = "v_existing"
  /\ web' = IF o = "exception" THEN Responds(web, 500)
            ELSE [web EXCEPT
                    !.pc = "v_write",
                    !.existing = IF o = "error" THEN "error"
                                 ELSE web.votes[web.action][web.voter]]
  /\ UNCHANGED <<profiles, admins, chk, ledger>>

\* votes_reports.py:56-96 and 227-267: delete, update or insert; the
\* response is not looked at
VoteWrite(o) ==
  /\ web.pc = "v_write"
  /\ LET a == web.action
         v == web.voter
     IN web' = IF o = "exception" THEN Responds(web, 500)
               ELSE IF o = "error" THEN [web EXCEPT !.pc = "v_count"]
               ELSE [web EXCEPT
                       !.pc = "v_count", !.primary = TRUE,
                       !.votes[a][v] =
                         VoteWritten(web.existing, web.vote_type)]
  /\ UNCHANGED <<profiles, admins, chk, ledger>>

\* votes_reports.py:99-113 and 270-284: the two counts
VoteCount(o) ==
  /\ web.pc = "v_count"
  /\ web' = IF o = "exception" THEN Responds(web, 500)
            ELSE [web EXCEPT !.pc = "v_update"]
  /\ UNCHANGED <<profiles, admins, chk, ledger>>

\* votes_reports.py:116-128 and 287-299: the counts are written, then the
\* handler decides whether the author is looked up for an award
VoteUpdate(o) ==
  /\ web.pc = "v_update"
  /\ web' = IF o = "exception" THEN Responds(web, 500)
            ELSE IF NetNewUpvote(web.vote_type, web.existing)
            THEN [web EXCEPT !.pc = "v_author"]
            ELSE Responds(web, 200)
  /\ UNCHANGED <<profiles, admins, chk, ledger>>

\* votes_reports.py:132-156 and 303-318: author_id is read; the award is
\* for an author who is not the voter
VoteAuthor(o) ==
  /\ web.pc = "v_author"
  /\ web' = IF o = "exception" THEN Responds(web, 500)
            ELSE IF o = "error"
            THEN Responds([web EXCEPT !.author = "missing"], 200)
            ELSE IF web.user # web.voter
            THEN [web EXCEPT !.author = web.user, !.pc = "points"]
            ELSE Responds([web EXCEPT !.author = web.user], 200)
  /\ UNCHANGED <<profiles, admins, chk, ledger>>

\* One vote at a time, every store operation may fail.
NextVotes ==
  \/ \E a \in VoteActions, u \in Voters, vt \in VoteTypes : CallVote(a, u, vt)
  \/ \E o \in Outcomes : VoteItem(o)
  \/ \E o \in Outcomes : VoteExisting(o)
  \/ \E o \in Outcomes : VoteWrite(o)
  \/ \E o \in Outcomes : VoteCount(o)
  \/ \E o \in Outcomes : VoteUpdate(o)
  \/ \E o \in Outcomes : VoteAuthor(o)
  \/ \E p \in SeqProcs : HandlerAward(p)
  \/ HandlerAwardRaises
  \/ \E p \in SeqProcs : HandlerAwarded(p)
  \/ \E p \in SeqProcs, o \in Outcomes : AwardInsert(p, o)
  \/ \E p \in SeqProcs, o \in Outcomes : AwardRead(p, o)
  \/ \E p \in SeqProcs, o \in Outcomes : AwardUpdate(p, o)

\* the author starts with 40 points
InitVotes == Init /\ profiles[PostAuthor].total_points = 40

SpecVotes == InitVotes /\ [][NextVotes]_vars
\* --------------------------------------------------------- authentication
\* get_current_user and get_admin_user (auth.py) and get_user_profile
\* (routers/points.py) step by step. web.calls counts the get_user calls
\* of one get_current_user invocation, and the profiles queries of one
\* get_user_profile invocation.
AuthCallers == {"u1"}
Credentials == {"none", "token", "headers", "both"}
\* supabase.auth.get_user: a user, a response without user, AuthApiError
\* (or an exception that names the token), a timeout, any other exception
AuthOutcomes == {"ok", "no_user", "auth_error", "timeout", "exception"}
\* the profiles query of get_user_profile; column_error is an error
\* response whose message has 'column' or 'does not exist'
ProfileOutcomes == Outcomes \cup {"column_error"}

\* variant: an exception of the first get_user call is answered with 401
AuthFallsBackNever(o) == FALSE
\* auth.py:113-127: an exception that is neither AuthApiError nor a timeout
\* and whose text does not name the token
AuthFallsBack(o) == o = "exception"

\* get_current_user raises HTTPException(code); get_admin_user swallows it
\* (auth.py:237-238, 247) and goes on to the admin headers, if it has them
AuthFails(w, code) ==
  IF w.action # "get_admin_user" THEN Responds(w, code)
  ELSE IF w.cred = "both" THEN [w EXCEPT !.pc = "a_login"]
  ELSE Responds(w, 401)

\* auth.py:35-65: without a bearer token get_current_user raises 401
CallGetCurrentUser(u, token) ==
  /\ web.pc \in {"idle", "done"}
  /\ AllIdle
  /\ Room
  /\ LET w == [IdleWeb EXCEPT
                 !.action = "get_current_user", !.user = u,
                 !.cred = IF token THEN "token" ELSE "none",
                 !.pinned = web.pinned, !.request = web.request,
                 !.votes = web.votes]
     IN web' = IF token THEN [w EXCEPT !.pc = "get_user"]
               ELSE Responds(w, 401)
  /\ UNCHANGED <<profiles, admins, chk, ledger>>

\* auth.py:219-276
CallGetAdminUser(u, c) ==
  /\ web.pc \in {"idle", "done"}
  /\ AllIdle
  /\ Room
  /\ LET w == [IdleWeb EXCEPT
                 !.action = "get_admin_user", !.user = u, !.cred = c,
                 !.pinned = web.pinned, !.request = web.request,
                 !.votes = web.votes]
     IN web' = CASE c \in {"token", "both"} -> [w EXCEPT !.pc = "get_user"]
                 [] c = "headers" -> [w EXCEPT !.pc = "a_login"]
                 [] OTHER -> Responds(w, 401)
  /\ UNCHANGED <<profiles, admins, chk, ledger>>

\* auth.py:71-123: get_user in a worker thread, at most 10 seconds
AuthGetUser(o) ==
  /\ web.pc = "get_user"
  /\ LET w == [web EXCEPT !.calls = web.calls + 1, !.auth_resp = o]
     IN web' = CASE o = "ok" -> [w EXCEPT !.pc = "points", !.primary = TRUE]
                 [] o = "timeout" -> AuthFails(w, 408)
                 [] AuthFallsBack(o) -> [w EXCEPT !.pc = "get_user_sync"]
                 [] OTHER -> AuthFails(w, 401)
  /\ UNCHANGED <<profiles, admins, chk, ledger>>

\* auth.py:126-158: get_user once more, now in the request's own thread
AuthGetUserSync(o) ==
  /\ web.pc = "get_user_sync"
  /\ LET w == [web EXCEPT !.calls = web.calls + 1]
     IN web' = CASE o = "ok" -> [w EXCEPT !.pc = "points", !.primary = TRUE]
                 [] o = "timeout" -> AuthFails(w, 408)
                 [] OTHER -> AuthFails(w, 401)
  /\ UNCHANGED <<profiles, admins, chk, ledger>>

\* auth.py:247-273: the admins row named by X-Admin-ID and X-Admin-Email
AdminLogin(o) ==
  /\ web.pc = "a_login"
  /\ web' = IF o = "ok" /\ AdminRowFound(web.user)
            THEN [web EXCEPT !.pc = "a_admins"]
            ELSE Responds(web, 401)
  /\ UNCHANGED <<profiles, admins, chk, ledger>>

\* auth.py:279-291: an active admins row returns the user; an error
\* response falls through to the profiles query
AdminRoleLookup(o) ==
  /\ web.pc = "a_admins"
  /\ LET w == [web EXCEPT !.admin_resp = o]
     IN web' = IF AdminLookupRaises(o) THEN Responds(w, 403)
               ELSE IF o = "ok" /\ AdminRowFound(w.user) THEN Responds(w, 200)
               ELSE [w EXCEPT !.pc = "a_role"]
  /\ UNCHANGED <<profiles, admins, chk, ledger>>

\* auth.py:293-314; .single() raises when the user has no profiles row
AdminProfileLookup(o) ==
  /\ web.pc = "a_role"
  /\ LET w == [web EXCEPT !.profile_resp = o]
     IN web' = IF /\ o = "ok"
                  /\ w.user \in DOMAIN profiles
                  /\ RoleIsAdmin(profiles[w.user].role)
               THEN Responds(w, 200)
               ELSE Responds(w, 403)
  /\ UNCHANGED <<profiles, admins, chk, ledger>>

\* routers/points.py:13-21
CallGetUserProfile(u) ==
  /\ web.pc \in {"idle", "done"}
  /\ AllIdle
  /\ web' = [IdleWeb EXCEPT
               !.action = "get_user_profile", !.user = u, !.pc = "p_query",
               !.pinned = web.pinned, !.request = web.request,
               !.votes = web.votes]
  /\ UNCHANGED <<profiles, admins, chk, ledger>>

\* routers/points.py:26-39 and 60-110: the profile, or default values when
\* the query fails otherwise than by a missing column
ProfileQuery(o) ==
  /\ web.pc = "p_query"
  /\ LET w == [web EXCEPT !.calls = web.calls + 1, !.profile_resp = o]
     IN web' = IF o = "column_error" THEN [w EXCEPT !.pc = "p_requery"]
               ELSE Responds([w EXCEPT !.primary = o = "ok"], 200)
  /\ UNCHANGED <<profiles, admins, chk, ledger>>

\* routers/points.py:40-59: the same row with fewer columns
ProfileRequery(o) ==
  /\ web.pc = "p_requery"
  /\ web' = Responds([web EXCEPT !.calls = web.calls + 1,
                                 !.primary = o = "ok"], 200)
  /\ UNCHANGED <<profiles, admins, chk, ledger>>

\* One request at a time; the identity provider and every store operation
\* may fail.
NextAuth ==
  \/ \E u \in AuthCallers, token \in BOOLEAN : CallGetCurrentUser(u, token)
  \/ \E u \in AuthCallers, c \in Credentials : CallGetAdminUser(u, c)
  \/ \E o \in AuthOutcomes : AuthGetUser(o)
  \/ \E o \in AuthOutcomes : AuthGetUserSync(o)
  \/ \E o \in Outcomes : AdminLogin(o)
  \/ \E o \in Outcomes : AdminRoleLookup(o)
  \/ \E o \in Outcomes : AdminProfileLookup(o)
  \/ \E u \in AuthCallers : CallGetUserProfile(u)
  \/ \E o \in ProfileOutcomes : ProfileQuery(o)
  \/ \E o \in Outcomes : ProfileRequery(o)
  \/ \E p \in SeqProcs : HandlerAward(p)
  \/ HandlerAwardRaises
  \/ \E p \in SeqProcs : HandlerAwarded(p)
  \/ \E p \in SeqProcs, o \in Outcomes : AwardInsert(p, o)
  \/ \E p \in SeqProcs, o \in Outcomes : AwardRead(p, o)
  \/ \E p \in SeqProcs, o \in Outcomes : AwardUpdate(p, o)
  \/ \E p \in SeqProcs, o \in Outcomes : DailyRead(p, o)
  \/ \E p \in SeqProcs, o \in Outcomes : DailyUpdate(p, o)
  \/ \E p \in SeqProcs : DailyReturn(p)

\* the caller is u1, with any profile and admins row; u2 is a plain user
InitAuth ==
  /\ InitRoles
  /\ "u2" \in DOMAIN profiles /\ profiles["u2"].role = "user"
  /\ "u2" \notin DOMAIN admins

SpecAuth == InitAuth /\ [][NextAuth]_vars
\* ------------------------------------------------------- specifications
\* Concurrent requests, every store operation may fail. Midnight passes
\* between requests, not in the middle of one.
Next ==
  \/ \E p \in Procs, u \in Contended, pts \in AwardAmounts :
       CallAward(p, u, pts) /\ UNCHANGED <<history, web>>
  \/ \E p \in Procs, o \in Outcomes : AwardInsert(p, o)
  \/ \E p \in Procs, o \in Outcomes : AwardRead(p, o)
  \/ \E p \in Procs, o \in Outcomes : AwardUpdate(p, o)
  \/ \E p \in Procs, u \in Contended, pts \in DeductAmounts :
       CallDeduct(p, u, pts) /\ UNCHANGED <<history, web>>
  \/ \E p \in Procs, o \in Outcomes : DeductRead(p, o)
  \/ \E p \in Procs, o \in Outcomes : DeductInsert(p, o)
  \/ \E p \in Procs, o \in Outcomes : DeductUpdate(p, o)
  \/ \E p \in Procs, u \in Contended : CallDaily(p, u) /\ UNCHANGED <<history, web>>
  \/ \E p \in Procs, o \in Outcomes : DailyRead(p, o)
  \/ \E p \in Procs, o \in Outcomes : DailyUpdate(p, o)
  \/ \E p \in Procs : DailyReturn(p)
  \/ \E u \in Contended, tp \in AdminPoints, o \in Outcomes : UpdateUser(u, tp, o)
  \/ AllIdle /\ NextDay

Spec == Init /\ [][Next]_vars

\* Concurrent award_points calls for one user and nothing else.
NextRace ==
  \/ \E p \in Procs, u \in Contended, pts \in AwardAmounts :
       CallAward(p, u, pts) /\ UNCHANGED <<history, web>>
  \/ \E p \in Procs, o \in Outcomes : AwardInsert(p, o)
  \/ \E p \in Procs, o \in Outcomes : AwardRead(p, o)
  \/ \E p \in Procs, o \in Outcomes : AwardUpdate(p, o)

SpecRace == Init /\ [][NextRace]_vars

\* Concurrent deduct_points calls for one user and nothing else.
NextSpend ==
  \/ \E p \in Procs, u \in Contended, pts \in DeductAmounts :
       CallDeduct(p, u, pts) /\ RecordCall(p, "deduct", u, pts)
  \/ \E p \in Procs, o \in Outcomes : DeductRead(p, o)
  \/ \E p \in Procs, o \in Outcomes : DeductInsert(p, o)
  \/ \E p \in Procs, o \in Outcomes : DeductUpdate(p, o)

SpecSpend == Init /\ [][NextSpend]_vars
\* One call at a time, no store operation fails.
NextSeq ==
  \/ \E p \in SeqProcs, u \in Users, pts \in AwardAmounts :
       AllIdle /\ CallAward(p, u, pts) /\ Record(p, "award", u, pts)
  \/ \E p \in SeqProcs : AwardInsert(p, "ok")
  \/ \E p \in SeqProcs : AwardRead(p, "ok")
  \/ \E p \in SeqProcs : AwardUpdate(p, "ok")
  \/ \E p \in SeqProcs, u \in Users, pts \in DeductAmounts :
       AllIdle /\ CallDeduct(p, u, pts) /\ Record(p, "deduct", u, pts)
  \/ \E p \in SeqProcs : DeductRead(p, "ok")
  \/ \E p \in SeqProcs : DeductInsert(p, "ok")
  \/ \E p \in SeqProcs : DeductUpdate(p, "ok")
  \/ \E p \in SeqProcs, u \in Users :
       AllIdle /\ CallDaily(p, u) /\ Record(p, "daily", u, 0)
  \/ \E p \in SeqProcs : DailyRead(p, "ok")
  \/ \E p \in SeqProcs : DailyUpdate(p, "ok")
  \/ \E p \in SeqProcs : DailyReturn(p)
  \/ AllIdle /\ NextDay

SpecSeq == Init /\ [][NextSeq]_vars

\* One call at a time, every store operation may fail.
NextFail ==
  \/ \E p \in SeqProcs, u \in FailUsers, pts \in AwardAmounts :
       AllIdle /\ CallAward(p, u, pts) /\ RecordCall(p, "award", u, pts)
  \/ \E p \in SeqProcs, o \in Outcomes : AwardInsert(p, o)
  \/ \E p \in SeqProcs, o \in Outcomes : AwardRead(p, o)
  \/ \E p \in SeqProcs, o \in Outcomes : AwardUpdate(p, o)
  \/ \E p \in SeqProcs, u \in FailUsers, pts \in DeductAmounts :
       AllIdle /\ CallDeduct(p, u, pts) /\ RecordCall(p, "deduct", u, pts)
  \/ \E p \in SeqProcs, o \in Outcomes : DeductRead(p, o)
  \/ \E p \in SeqProcs, o \in Outcomes : DeductInsert(p, o)
  \/ \E p \in SeqProcs, o \in Outcomes : DeductUpdate(p, o)
  \/ \E p \in SeqProcs, u \in FailUsers :
       AllIdle /\ CallDaily(p, u) /\ RecordCall(p, "daily", u, 0)
  \/ \E p \in SeqProcs, o \in Outcomes : DailyRead(p, o)
  \/ \E p \in SeqProcs, o \in Outcomes : DailyUpdate(p, o)
  \/ \E p \in SeqProcs : DailyReturn(p)
  \/ AllIdle /\ NextDay

SpecFail == Init /\ [][NextFail]_vars

\* ============================================================ properties
LevelOf(t) == IF 1 + (t \div 100) < 10 THEN 1 + (t \div 100) ELSE 10
RecordsOf(u) == {i \in 1..Len(point_records) : point_records[i].user_id = u}
DailyRecords(u) ==
  {i \in RecordsOf(u) : point_records[i].reason = DailyLoginReason}
DailyRecordsOn(u, d) ==
  {i \in DailyRecords(u) : point_records[i].created_at = d}
\* the last call of request p was op and it has returned
Finished(p, op) == req[p].pc = "idle" /\ pre[p].op = op
\* request p takes a step
Steps(p) == req'[p] # req[p]

\* C1: run alone and without store failures, award_points with points > 0
\* for a user that has a profile returns true, adds points to total_points
\* and sets level to min(10, 1 + total_points // 100).
C1_AwardAddsPoints ==
  \A p \in Procs :
    (Finished(p, "award") /\ pre[p].user \in DOMAIN profiles
       /\ pre[p].points > 0)
    => /\ req[p].ret = TRUE
       /\ profiles[pre[p].user].total_points = pre[p].balance + pre[p].points
       /\ profiles[pre[p].user].level =
            LevelOf(profiles[pre[p].user].total_points)

\* 95 points, level 1, award 10: 105 points, level 2
C1_Witness ==
  \E p \in Procs :
    /\ Finished(p, "award") /\ req[p].ret
    /\ pre[p].points = 10 /\ pre[p].balance = 95
    /\ profiles[pre[p].user].total_points = 105
    /\ profiles[pre[p].user].level = 2

\* C2: deduct_points with points above the balance returns false and leaves
\* total_points (and the ledger) as they were.
C2_DeductInsufficient ==
  \A p \in Procs :
    (Finished(p, "deduct") /\ pre[p].user \in DOMAIN profiles
       /\ pre[p].points > pre[p].balance)
    => /\ req[p].ret = FALSE
       /\ profiles[pre[p].user].total_points = pre[p].balance
       /\ Len(point_records) = pre[p].records

\* balance 40, deduct 50: fails, balance stays 40
C2_Witness ==
  \E p \in Procs :
    /\ Finished(p, "deduct") /\ ~req[p].ret
    /\ pre[p].points = 50 /\ pre[p].balance = 40
    /\ profiles[pre[p].user].total_points = 40

\* C3: run alone and without store failures, deduct_points with
\* 0 < points <= balance returns true, subtracts points from total_points,
\* which stays >= 0, and sets level to max(1, min(10, 1 + total // 100)).
C3_DeductSubtracts ==
  \A p \in Procs :
    (Finished(p, "deduct") /\ pre[p].user \in DOMAIN profiles
       /\ 0 < pre[p].points /\ pre[p].points <= pre[p].balance)
    => /\ req[p].ret = TRUE
       /\ profiles[pre[p].user].total_points = pre[p].balance - pre[p].points
       /\ profiles[pre[p].user].total_points >= 0
       /\ profiles[pre[p].user].level =
            (IF LevelOf(profiles[pre[p].user].total_points) < 1 THEN 1
             ELSE LevelOf(profiles[pre[p].user].total_points))

C3_Witness ==
  \E p \in Procs :
    /\ Finished(p, "deduct") /\ req[p].ret
    /\ pre[p].points = 50 /\ pre[p].balance = 95
    /\ profiles[pre[p].user].total_points = 45
    /\ Len(point_records) = pre[p].records + 1

\* C4: whatever the interleaving and whichever store operations fail, no
\* profile ever holds a negative total_points.
C4_NeverNegative ==
  \A u \in DOMAIN profiles : profiles[u].total_points >= 0

\* two interleaved deductions of 50 from 95 both went through
C4_Witness ==
  /\ Cardinality({i \in RecordsOf("u1") : point_records[i].points = -50}) = 2
  /\ profiles["u1"].total_points = 45

\* C5: level = min(10, 1 + floor(total_points / 100)) and 1 <= level <= 10
\* hold for every profile in every reachable state.
C5_LevelMatchesPoints ==
  \A u \in DOMAIN profiles :
    /\ profiles[u].level = LevelOf(profiles[u].total_points)
    /\ profiles[u].level \in 1..10

\* the cap is in effect: more than 1000 points, level 10
C5_Witness ==
  \E u \in DOMAIN profiles :
    profiles[u].total_points = 1005 /\ profiles[u].level = 10

\* C6: award_points and deduct_points with points <= 0 return false at
\* once, and deduct_points for a user without a profile returns false; none
\* of their steps changes a profile or the point_records table.
C6_PreconditionNoOp ==
  [][\A p \in Procs :
       /\ (req[p].pc = "idle" /\ (Steps(p) \/ pre'[p] # pre[p])
             /\ pre'[p].op \in {"award", "deduct"} /\ pre'[p].points <= 0)
          => (req'[p].pc = "idle" /\ req'[p].ret = FALSE
                /\ UNCHANGED store)
       /\ (req[p].pc # "idle" /\ Steps(p) /\ pre[p].op = "deduct"
             /\ pre[p].user \notin DOMAIN profiles)
          => (req'[p].pc = "idle" /\ req'[p].ret = FALSE
                /\ UNCHANGED store)]_vars

C6_Witness ==
  \E p \in Procs :
    /\ Finished(p, "deduct") /\ pre[p].points > 0
    /\ pre[p].user \notin DOMAIN profiles /\ ~req[p].ret
    /\ Len(point_records) > 0

\* C7: without store failures, after check_daily_login ran for a user
\* there is exactly one daily-login record of that user for the day: the
\* call returned true, inserted it and added 1 point if there was none, and
\* returned false and changed nothing if there was one.
C7_DailyOncePerDay ==
  \A p \in Procs :
    (Finished(p, "daily") /\ pre[p].user \in DOMAIN profiles)
    => /\ Cardinality(DailyRecordsOn(pre[p].user, pre[p].day)) = 1
       /\ req[p].ret <=> (Len(point_records) = pre[p].records + 1)
       /\ ~req[p].ret => (Len(point_records) = pre[p].records)
       /\ profiles[pre[p].user].total_points =
            pre[p].balance + (IF req[p].ret THEN 1 ELSE 0)

\* the second call of the day has returned false
C7_Witness ==
  \E p \in Procs :
    /\ Finished(p, "daily") /\ ~req[p].ret
    /\ pre[p].user \in DOMAIN profiles
    /\ Cardinality(DailyRecordsOn(pre[p].user, pre[p].day)) = 1
    /\ RecordsOf(pre[p].user) = DailyRecords(pre[p].user)
    /\ profiles[pre[p].user].total_points = initial_points[pre[p].user] + 1

\* C8: within one calendar day there is at most one daily-login record per
\* user, whatever the interleaving and whichever store operations fail.
C8_AtMostOneDailyRecord ==
  \A u \in Users, d \in 1..MaxDay :
    Cardinality(DailyRecordsOn(u, d)) <= 1

\* C9 as stated: a check_daily_login call whose date stamp failed, by error
\* response or by exception, returns false.
C9_StampFailureReturnsFalse ==
  [][\A p \in Procs :
       (req[p].op = "daily" /\ req[p].pc \in {"l_return", "a_insert",
                                              "a_read", "a_update"}
          /\ req[p].today # 0 /\ req[p].resp \in {"error", "exception"}
          /\ req'[p].pc = "idle")
       => req'[p].ret = FALSE]_vars

\* C9 amended: an exception in the date stamp ends the call with false and
\* nothing written; after an error response of the stamp, and after a
\* stored date that cannot be parsed, the call goes on to
\* award_points(user, 1).
C9_StampFailure ==
  [][\A p \in Procs :
       /\ (req[p].pc = "l_update" /\ Steps(p))
          => IF req'[p].resp = "exception"
             THEN req'[p].pc = "l_return" /\ UNCHANGED store
             ELSE /\ req'[p].pc = "a_insert" /\ req'[p].points = 1
                  /\ req'[p].resp = "error" => UNCHANGED store
       /\ (req[p].pc = "l_return" /\ Steps(p))
          => (req'[p].pc = "idle" /\ req'[p].ret = FALSE
                /\ UNCHANGED store)
       /\ (req[p].pc = "l_read" /\ Steps(p)
             /\ req'[p].resp = "ok" /\ req[p].user \in DOMAIN profiles
             /\ profiles[req[p].user].last_login_date.fmt = "garbage")
          => req'[p].pc = "l_update"]_vars

\* the stamp answered with an error and the call is about to credit the
\* point of the record it inserted
C9_Witness ==
  \E p \in Procs :
    /\ req[p].op = "daily" /\ req[p].pc = "a_update"
    /\ req[p].resp = "error"
    /\ DailyRecords(req[p].user) # {}

\* C10: without store failures and with one call at a time, a user has as
\* many daily-login records as days on which check_daily_login was called,
\* and when nothing else gave or took points total_points has grown by
\* that number.
C10_OnePointPerDay ==
  AllIdle =>
    \A u \in DOMAIN profiles :
      /\ Cardinality(DailyRecords(u)) = Cardinality(login_days[u])
      /\ (RecordsOf(u) = DailyRecords(u))
         => profiles[u].total_points =
              initial_points[u] + Cardinality(login_days[u])

C10_Witness ==
  /\ AllIdle
  /\ login_days["u1"] = 1..MaxDay
  /\ RecordsOf("u1") = DailyRecords("u1")
  /\ profiles["u1"].total_points = initial_points["u1"] + MaxDay

\* -------------------------------------------------- failures of the store
\* the point_records rows of user u inserted after the first n rows, summed
RECURSIVE LedgerSince(_, _)
LedgerSince(u, n) ==
  IF n >= Len(point_records) THEN 0
  ELSE LedgerSince(u, n + 1)
         + (IF point_records[n + 1].user_id = u
            THEN point_records[n + 1].points ELSE 0)
\* request p is inside award_points (called directly or for a daily login)
InAward(p) == req[p].pc \in {"a_insert", "a_read", "a_update"}

\* C11: award_points returns true only from a successful profile update
\* that follows a successful insert: the row is in point_records and
\* total_points has grown by points. When the insert fails the call returns
\* false and profiles and point_records are as they were.
C11_TrueOnlyIfBothWrites ==
  [][\A p \in Procs :
       /\ (InAward(p) /\ Steps(p) /\ req'[p].pc = "idle"
             /\ req'[p].ret = TRUE)
          => /\ req[p].pc = "a_update"
             /\ Len(point_records') = pre[p].records + 1
             /\ point_records'[Len(point_records')].user_id = req[p].user
             /\ point_records'[Len(point_records')].points = req[p].points
             /\ profiles'[req[p].user].total_points =
                  pre[p].balance + req[p].points
       /\ (req[p].pc = "a_insert" /\ Steps(p)
             /\ point_records' = point_records)
          => (req'[p].pc = "idle" /\ req'[p].ret = FALSE
                /\ UNCHANGED store)]_vars

\* an award whose insert failed has returned false, nothing was written
C11_Witness ==
  \E p \in Procs :
    /\ Finished(p, "award") /\ pre[p].points > 0 /\ ~req[p].ret
    /\ pre[p].user \in DOMAIN profiles
    /\ Len(point_records) = pre[p].records
    /\ profiles[pre[p].user].total_points = pre[p].balance

\* C12: when the profile update of award_points fails after the insert
\* succeeded, the call returns false, total_points is unchanged and the
\* inserted row stays: the rows inserted for the user since the call began
\* sum to points more than total_points has changed.
C12_UpdateFailureKeepsRecord ==
  [][\A p \in Procs :
       (req[p].pc = "a_update" /\ Steps(p) /\ profiles' = profiles)
       => /\ req'[p].pc = "idle" /\ req'[p].ret = FALSE
          /\ point_records' = point_records
          /\ Len(point_records) = pre[p].records + 1
          /\ point_records[Len(point_records)].user_id = req[p].user
          /\ LedgerSince(req[p].user, pre[p].records)
               - (profiles'[req[p].user].total_points - pre[p].balance)
             = req[p].points]_vars

\* balance 40, award 10: the row is there, the balance is still 40
C12_Witness ==
  \E p \in Procs :
    /\ Finished(p, "award") /\ ~req[p].ret
    /\ pre[p].points = 10 /\ pre[p].balance = 40
    /\ Len(point_records) = pre[p].records + 1
    /\ profiles[pre[p].user].total_points = 40
    /\ LedgerSince(pre[p].user, pre[p].records) = 10

\* C17 as stated: award_points, deduct_points and check_daily_login return
\* false whenever one of their store operations failed, so a call that
\* returned true has all its writes in the store: the row, the new
\* total_points and, for check_daily_login, the date stamp of the day.
C17_TrueMeansNoFailure ==
  \A p \in Procs :
    (req[p].pc = "idle" /\ req[p].ret = TRUE /\ pre[p].op # "none")
    => /\ Len(point_records) = pre[p].records + 1
       /\ pre[p].op = "award" =>
            profiles[pre[p].user].total_points = pre[p].balance + pre[p].points
       /\ pre[p].op = "deduct" =>
            profiles[pre[p].user].total_points = pre[p].balance - pre[p].points
       /\ pre[p].op = "daily" =>
            /\ profiles[pre[p].user].total_points = pre[p].balance + 1
            /\ profiles[pre[p].user].last_login_date = DateStr(pre[p].day)

\* C17 amended: no step of the three functions raises, and a step whose
\* store operation failed ends the call with false, except that an error
\* response of the date stamp of check_daily_login lets the call go on to
\* award_points.
C17_FailuresReturnFalse ==
  [][\A p \in Procs :
       LET ReturnsFalse == req'[p].pc = "idle" /\ req'[p].ret = FALSE
       IN /\ req'[p].ret \in BOOLEAN
          /\ (req[p].pc \in {"a_insert", "d_insert"} /\ Steps(p)
                /\ point_records' = point_records) => ReturnsFalse
          /\ (req[p].pc = "a_read" /\ Steps(p)
                /\ req'[p].pc # "a_update") => ReturnsFalse
          /\ (req[p].pc = "d_read" /\ Steps(p)
                /\ req'[p].pc # "d_insert") => ReturnsFalse
          /\ (req[p].pc \in {"a_update", "d_update"} /\ Steps(p)
                /\ profiles' = profiles) => ReturnsFalse
          /\ (req[p].pc = "l_read" /\ Steps(p) /\ req'[p].resp # "ok")
             => req'[p].pc = "l_return"
          /\ (req[p].pc = "l_update" /\ Steps(p))
             => /\ req'[p].resp = "exception" => req'[p].pc = "l_return"
                /\ req'[p].resp = "error" => req'[p].pc = "a_insert"
          /\ (req[p].pc = "l_return" /\ Steps(p)) => ReturnsFalse]_vars

\* a deduction within the balance returned false: its row is inserted,
\* the update failed
C17_Witness ==
  \E p \in Procs :
    /\ Finished(p, "deduct") /\ req[p].ret = FALSE
    /\ 0 < pre[p].points /\ pre[p].points <= pre[p].balance
    /\ Len(point_records) = pre[p].records + 1
    /\ point_records[Len(point_records)].points = 0 - pre[p].points
    /\ profiles[pre[p].user].total_points = pre[p].balance

\* ------------------------------------------------------------ role checks
Done(fn) == chk.pc = "done" /\ chk.fn = fn
NoQueryFailed ==
  chk.admin_resp \in {"none", "ok"} /\ chk.profile_resp \in {"none", "ok"}
ActiveAdmin(u) == u \in DOMAIN admins /\ admins[u].is_active = TRUE
ProfileRole(u) == IF u \in DOMAIN profiles THEN profiles[u].role ELSE NoRole
PrivilegedRole(u) == ProfileRole(u) \in {"admin", "moderator", "superadmin"}

\* C13: when no query fails, is_admin returns true for every principal
\* with an active admins row, whatever the profile role, and without a
\* profile too.
C13_ActiveAdminIsAdmin ==
  (Done("is_admin") /\ NoQueryFailed /\ ActiveAdmin(chk.user))
  => chk.ret = TRUE

\* an active admin whose profile says user
C13_Witness ==
  /\ Done("is_admin") /\ NoQueryFailed /\ ActiveAdmin(chk.user)
  /\ ProfileRole(chk.user) = "user" /\ chk.user \in DOMAIN profiles
  /\ chk.ret = TRUE

\* C14: when no query fails and the principal has no active admins row,
\* is_admin returns true exactly when the profile role is admin, moderator
\* or superadmin.
C14_RoleDecidesWithoutAdminRow ==
  (Done("is_admin") /\ NoQueryFailed /\ ~ActiveAdmin(chk.user))
  => (chk.ret <=> PrivilegedRole(chk.user))

\* an inactive admins row and role user: not admin
C14_Witness ==
  /\ Done("is_admin") /\ NoQueryFailed
  /\ chk.user \in DOMAIN admins /\ ~admins[chk.user].is_active
  /\ ProfileRole(chk.user) = "user" /\ chk.ret = FALSE

\* C15 as stated: whenever the admins query or the profiles query fails,
\* by error response or by exception, is_admin returns false.
C15_AnyFailureReturnsFalse ==
  (Done("is_admin") /\ ~NoQueryFailed) => chk.ret = FALSE

\* C15 amended: is_admin returns false after an exception of either query
\* and after an error response of the profiles query; after an error
\* response of the admins query the profile role alone decides; a failure
\* never makes a principal admin that has neither an active admins row nor
\* a privileged role.
C15_FailClosed ==
  Done("is_admin") =>
    /\ chk.ret \in BOOLEAN
    /\ (chk.admin_resp = "exception"
          \/ chk.profile_resp \in {"error", "exception"})
       => chk.ret = FALSE
    /\ (chk.admin_resp = "error" /\ chk.profile_resp = "ok")
       => (chk.ret <=> PrivilegedRole(chk.user))
    /\ (~NoQueryFailed /\ chk.ret)
       => (ActiveAdmin(chk.user) \/ PrivilegedRole(chk.user))

\* the admins query answered with an error and the moderator is admin
C15_Witness ==
  /\ Done("is_admin") /\ chk.admin_resp = "error"
  /\ ProfileRole(chk.user) = "moderator" /\ chk.ret = TRUE

\* C16: is_superadmin returns true exactly when the profiles query
\* succeeded and the role is superadmin; an active admins row, role admin
\* or moderator, and a failed query all give false.
C16_SuperadminOnlyByRole ==
  Done("is_superadmin") =>
    (chk.ret <=> (chk.profile_resp = "ok"
                    /\ ProfileRole(chk.user) = "superadmin"))

\* an active admin with role admin is no superadmin
C16_Witness ==
  /\ Done("is_superadmin") /\ chk.profile_resp = "ok"
  /\ ActiveAdmin(chk.user) /\ ProfileRole(chk.user) = "admin"
  /\ chk.ret = FALSE

\* --------------------------------------------------------------- handlers
HandlerDone == web.pc = "done"

C19_DeductFailureKeepsResult ==
  (HandlerDone /\ web.deduct = "false")
  => (web.primary /\ web.http = SuccessStatus(web.action))

\* C19 amended: when deduct_points returned false the handler answers 400
\* and its write is not made: the post is not pinned, the group is not
\* created; pin_post only pins after a deduction that returned true.
C19_DeductFailureAborts ==
  /\ (HandlerDone /\ web.deduct = "false")
     => /\ web.http = 400
        /\ ~web.primary
        /\ web.action = "pin_post" => ~web.pinned
  /\ (web.action = "pin_post" /\ web.primary) => web.deduct = "true"

\* the author had the 50 points, the deduction failed, the post is not
\* pinned
C19_Witness ==
  /\ HandlerDone /\ web.action = "pin_post" /\ web.deduct = "false"
  /\ web.http = 400 /\ ~web.pinned
  /\ profiles[web.user].total_points >= PinCost

\* ------------------------------------------------------------ lost update
\* C20: the profile update of award_points writes the total_points the
\* call read earlier plus points, whatever the profile holds by then, so
\* of two interleaved calls that read the same value the later write
\* replaces the earlier one.
C20_UpdateWritesStaleSum ==
  [][\A p \in Procs :
       (req[p].pc = "a_update" /\ Steps(p) /\ req'[p].ret = TRUE)
       => /\ profiles'[req[p].user].total_points =
               req[p].current_points + req[p].points
          /\ point_records' = point_records]_vars

\* both calls returned true, both rows of 10 are there, total_points has
\* grown by 10
C20_Witness ==
  /\ \A p \in Procs : req[p].pc = "idle" /\ req[p].ret = TRUE
  /\ Len(point_records) = 2
  /\ \A i \in 1..Len(point_records) :
       point_records[i].user_id = "u1" /\ point_records[i].points = 10
  /\ profiles["u1"].total_points = initial_points["u1"] + 10

\* ------------------------------------------------------ ledger and balance
\* C21: after calls that ran one at a time with no store failure, the
\* total_points of every profile is its initial value plus the points of
\* all the rows inserted for that user.
C21_BalanceIsLedgerSum ==
  AllIdle =>
    \A u \in DOMAIN profiles :
      profiles[u].total_points = initial_points[u] + LedgerSince(u, 0)

\* an award of 10 and a deduction of 50 are both in the ledger of u1
C21_Witness ==
  /\ AllIdle
  /\ \E i, j \in RecordsOf("u1") :
       point_records[i].points = 10 /\ point_records[j].points = -50
  /\ profiles["u1"].total_points = initial_points["u1"] - 40

\* ------------------------------------------------- what a failure leaves
\* C28 as stated: whenever deduct_points returns false, for any reason, the
\* user's total_points and the rows of point_records are the same as before
\* the call.
C28_FalseLeavesNothing ==
  \A p \in Procs :
    (Finished(p, "deduct") /\ req[p].ret = FALSE)
    => /\ Len(point_records) = pre[p].records
       /\ pre[p].user \in DOMAIN profiles
            => profiles[pre[p].user].total_points = pre[p].balance

\* C28 amended: the step by which deduct_points returns false changes
\* neither profiles nor point_records, and total_points is what it was
\* before the call; point_records is as before the call too unless the
\* call returns false from its profile update, when the row with -points
\* that the insert wrote stays.
C28_FalseKeepsInsertedRow ==
  [][\A p \in Procs :
       (req[p].pc \in {"d_read", "d_insert", "d_update"} /\ Steps(p)
          /\ req'[p].pc = "idle" /\ req'[p].ret = FALSE)
       => /\ UNCHANGED store
          /\ req[p].user \in DOMAIN profiles
               => profiles[req[p].user].total_points = pre[p].balance
          /\ req[p].pc # "d_update" => Len(point_records) = pre[p].records
          /\ req[p].pc = "d_update"
               => /\ Len(point_records) = pre[p].records + 1
                  /\ point_records[Len(point_records)].user_id = req[p].user
                  /\ point_records[Len(point_records)].points
                       = 0 - req[p].points]_vars

\* balance 95, deduct 50: false, the balance is 95 and the row of -50 is
\* in point_records
C28_Witness ==
  \E p \in Procs :
    /\ Finished(p, "deduct") /\ req[p].ret = FALSE
    /\ pre[p].points = 50 /\ pre[p].balance = 95
    /\ profiles[pre[p].user].total_points = 95
    /\ profiles[pre[p].user].level = 1
    /\ Len(point_records) = pre[p].records + 1
    /\ LedgerSince(pre[p].user, pre[p].records) = 0 - 50

\* C29 as stated: award_points with points > 0 for a user that has no
\* profile returns false and leaves point_records as it was.
C29_NoProfileNoRecord ==
  \A p \in Procs :
    (Finished(p, "award") /\ pre[p].points > 0
       /\ pre[p].user \notin DOMAIN profiles)
    => /\ req[p].ret = FALSE
       /\ Len(point_records) = pre[p].records

\* C29 amended: award_points with points > 0 for a user that has no
\* profile returns false, at its insert when the insert fails and at its
\* profile read otherwise; the profile read removes nothing, so the row the
\* insert wrote for that user stays in point_records.
C29_NoProfileKeepsRecord ==
  [][\A p \in Procs :
       /\ (InAward(p) /\ Steps(p) /\ req'[p].pc = "idle"
             /\ req[p].user \notin DOMAIN profiles)
          => /\ req'[p].ret = FALSE
             /\ req[p].pc \in {"a_insert", "a_read"}
             /\ UNCHANGED store
       /\ (req[p].pc = "a_read" /\ Steps(p)
             /\ req[p].user \notin DOMAIN profiles)
          => /\ req'[p].pc = "idle"
             /\ Len(point_records') = pre[p].records + 1
             /\ point_records'[Len(point_records')].user_id = req[p].user
             /\ point_records'[Len(point_records')].points = req[p].points
    ]_vars

\* award 10 to u3, who has no profile: false, and a row of 10 for u3
C29_Witness ==
  \E p \in Procs :
    /\ Finished(p, "award") /\ req[p].ret = FALSE
    /\ pre[p].user = "u3" /\ "u3" \notin DOMAIN profiles
    /\ pre[p].points = 10
    /\ Len(point_records) = pre[p].records + 1
    /\ point_records[Len(point_records)].user_id = "u3"
    /\ point_records[Len(point_records)].points = 10

\* ------------------------------------------------- concurrent deductions
\* the requests whose last deduct_points call returned true
Spenders == {p \in Procs : Finished(p, "deduct") /\ req[p].ret = TRUE}
RECURSIVE Spent(_)
Spent(S) ==
  IF S = {} THEN 0
  ELSE LET p == CHOOSE x \in S : TRUE
       IN pre[p].points + Spent(S \ {p})

\* C27: whatever the interleaving of concurrent deduct_points calls on one
\* user, with no award in between, the amounts of the calls that return
\* true sum to at most the total_points the user had at the start.
C27_NoDoubleSpend ==
  \A u \in Contended : Spent(Spenders) <= initial_points[u]

\* ----------------------------------------------------- points of handlers
\* C25: create_group and review_creation_request keep the points of the two
\* group types apart: a private group that got created has had one
\* successful deduction of 30 points and no award, a public group that got
\* created has had one award attempt of 20 points and no deduction.
C25_GroupPointsByType ==
  (HandlerDone /\ web.action \in GroupActions /\ web.primary)
  => IF web.private
     THEN web.deduct = "true" /\ web.award = "none"
     ELSE web.deduct = "none" /\ web.award # "none"

\* pin_post has taken its 50 points: deduct_points was called and
\* total_points is 50 below the current_points the handler had read
PinPaid ==
  /\ web.deduct # "none"
  /\ profiles[web.user].total_points = web.balance - PinCost

\* C26: a pin_post call by the author ends with the post pinned by it if
\* and only if the call has taken exactly 50 points from the author; on a
\* failure path total_points is what it was.
C26_PinAllOrNothing ==
  (HandlerDone /\ web.action = "pin_post" /\ web.user = PostAuthor)
  => /\ web.primary <=> PinPaid
     /\ (~web.primary /\ web.deduct # "none")
        => profiles[web.user].total_points = web.balance

\* ---------------------------------------------------------------- voting
VoteDone == HandlerDone /\ web.action \in VoteActions
\* award_points was called (it returned true or false, or it raised)
AwardTried == web.award # "none"

C24_OneAwardPerVoterAndPost ==
  profiles[PostAuthor].total_points - initial_points[PostAuthor]
    <= 2 + Cardinality({i \in RecordsOf(PostAuthor) :
                           point_records[i].points = 1})

C30_AdminOrRaises ==
  (HandlerDone /\ web.action = "get_admin_user")
  => /\ web.http = 200 => (ActiveAdmin(web.user) \/ PrivilegedRole(web.user))
     /\ ~(ActiveAdmin(web.user) \/ PrivilegedRole(web.user))
          => web.http \in {401, 403}
     /\ (web.admin_resp \in {"error", "exception"}
           \/ web.profile_resp \in {"error", "exception"})
          => web.http \in {401, 403}

\* C30 amended: get_admin_user returns the principal (200) or raises 401
\* or 403, and returns it only if it has an active admins row or a
\* privileged profile role; an exception of either role query and an error
\* response of the profiles query raise 403; after an error response of
\* the admins query the profile role alone decides.
C30_AdminOrRaisesFailClosed ==
  (HandlerDone /\ web.action = "get_admin_user")
  => /\ web.http \in {200, 401, 403}
     /\ web.http = 200 => (ActiveAdmin(web.user) \/ PrivilegedRole(web.user))
     /\ ~(ActiveAdmin(web.user) \/ PrivilegedRole(web.user))
          => web.http \in {401, 403}
     /\ (web.admin_resp = "exception"
           \/ web.profile_resp \in {"error", "exception"})
          => web.http = 403
     /\ (web.admin_resp = "error" /\ web.profile_resp = "ok")
          => (web.http = 200 <=> PrivilegedRole(web.user))
     /\ (web.admin_resp = "ok" /\ ActiveAdmin(web.user)) => web.http = 200

\* the admins query answered with an error and the moderator, who came
\* with a token, is returned
C30_Witness ==
  /\ HandlerDone /\ web.action = "get_admin_user" /\ web.cred = "token"
  /\ web.admin_resp = "error" /\ web.profile_resp = "ok"
  /\ ProfileRole(web.user) = "moderator" /\ ~ActiveAdmin(web.user)
  /\ web.http = 200

====
